---------------------------- MODULE Spec2Model ----------------------------
(***************************************************************************)
(* A model of the Pelican "events" plugin (src/events/events.py).          *)
(*                                                                         *)
(* Strings that the plugin parses (timestamps, durations) are sequences of *)
(* one-character strings.  A datetime is the number of seconds since       *)
(* 2000-01-01 00:00:00 (naive, or UTC after conversion), a timedelta is a  *)
(* number of seconds.  A content item is an object identity (a number);    *)
(* its metadata and its dynamically set attributes are functions from      *)
(* names to values.                                                        *)
(***************************************************************************)
EXTENDS Integers, Sequences, FiniteSets, TLC

\* Number of content items of the site.
NumItems == 2
\* Number of finalize hooks that may run without a reset in between.
MaxFinalize == 2
\* Longest duration string of the duration-parser specification.
MaxDurLen == 5

VARIABLES
    site_settings,     \* generator.settings: the configuration of the site
    metadata,          \* item -> its metadata mapping (content.metadata)
    attrs,             \* item -> attributes set on the content object by setattr
    events,            \* module global `events`
    localized_events,  \* module global `localized_events` (a defaultdict(list))
    context,           \* generator.context (only the key 'events_list')
    fs,                \* file system: [dir |-> OUTPUT_PATH exists, file |-> calendar file]
    call,              \* the last hook that ran: its name, the items handed to it
                       \* and what it raised
    finalized,         \* finalize hooks since the last reset
    td_in,             \* duration parser specification: the two input strings
    td_out             \* duration parser specification: the two results

vars == <<site_settings, metadata, attrs, events, localized_events, context, fs, call,
          finalized, td_in, td_out>>

-----------------------------------------------------------------------------
(* Python values *)

\* The empty dict / an object with no attribute set.
EmptyDict == [k \in {} |-> 0]

Digits == {"0", "1", "2", "3", "4", "5", "6", "7", "8", "9"}

DigitVal(c) ==
    CASE c = "0" -> 0 [] c = "1" -> 1 [] c = "2" -> 2 [] c = "3" -> 3
      [] c = "4" -> 4 [] c = "5" -> 5 [] c = "6" -> 6 [] c = "7" -> 7
      [] c = "8" -> 8 [] c = "9" -> 9

IsSpace(c) == c = " "

\* The decimal value of a non-empty sequence of digits.
RECURSIVE DecimalVal(_)
DecimalVal(s) ==
    IF s = <<>> THEN 0
    ELSE 10 * DecimalVal(SubSeq(s, 1, Len(s) - 1)) + DigitVal(s[Len(s)])

AllDigits(s) == \A i \in 1..Len(s) : s[i] \in Digits

\* The result of a call: what it raised ("none" when it returned) and its value.
Returned(v) == [raised |-> "none", value |-> v]
Raised(e) == [raised |-> e, value |-> 0]

-----------------------------------------------------------------------------
(* str.split() with no argument: the maximal runs of non-whitespace *)

RECURSIVE SplitFrom(_, _, _)
SplitFrom(s, i, cur) ==
    IF i > Len(s) THEN (IF cur = <<>> THEN <<>> ELSE <<cur>>)
    ELSE IF IsSpace(s[i])
         THEN (IF cur = <<>> THEN <<>> ELSE <<cur>>) \o SplitFrom(s, i + 1, <<>>)
         ELSE SplitFrom(s, i + 1, Append(cur, s[i]))

split(s) == SplitFrom(s, 1, <<>>)

-----------------------------------------------------------------------------
(* int(): an optional sign followed by at least one digit *)

IntOf(s, body) ==
    IF body = <<>> \/ ~AllDigits(body) THEN Raised("ValueError")
    ELSE IF s[1] = "-" THEN Returned(0 - DecimalVal(body))
    ELSE Returned(DecimalVal(body))

int(s) == IntOf(s, IF s # <<>> /\ s[1] \in {"+", "-"} THEN Tail(s) ELSE s)

-----------------------------------------------------------------------------
(* datetime.timedelta *)

TIME_MULTIPLIERS ==
    [c \in {"w", "d", "h", "m", "s"} |->
        CASE c = "w" -> "weeks" [] c = "d" -> "days" [] c = "h" -> "hours"
          [] c = "m" -> "minutes" [] c = "s" -> "seconds"]

\* Seconds in one unit of a timedelta keyword argument.
SecondsIn(field) ==
    CASE field = "weeks" -> 604800 [] field = "days" -> 86400
      [] field = "hours" -> 3600 [] field = "minutes" -> 60
      [] field = "seconds" -> 1

RECURSIVE SumFields(_, _)
SumFields(tdargs, fields) ==
    IF fields = {} THEN 0
    ELSE LET f == CHOOSE x \in fields : TRUE
         IN  tdargs[f] * SecondsIn(f) + SumFields(tdargs, fields \ {f})

\* timedelta(**tdargs): the keyword arguments are added up.
timedelta(tdargs) == SumFields(tdargs, DOMAIN tdargs)

\* d[k] = v on a dict.
SetItem(d, k, v) == [x \in DOMAIN d \cup {k} |-> IF x = k THEN v ELSE d[x]]

-----------------------------------------------------------------------------
(* parse_timedelta *)

\* The error handlers format their log message with ev['title'] before they
\* raise: without a title the handler itself raises KeyError.
RaiseLogged(ev, e) == IF "title" \in DOMAIN ev THEN Raised(e) ELSE Raised("KeyError")

\* A mutant of the loop body: the value of a repeated unit is added.
AddChunk(tdargs, m, val) ==
    SetItem(tdargs, m, IF m \in DOMAIN tdargs THEN tdargs[m] + val ELSE val)

StoreChunk(tdargs, m, val) == SetItem(tdargs, m, val)

RECURSIVE ParseChunks(_, _, _, _)

\* One pass of the loop body: the multiplier is looked up before the number
\* is parsed.
ParseChunk(ev, chunks, i, tdargs, last, val) ==
    IF last \notin DOMAIN TIME_MULTIPLIERS THEN RaiseLogged(ev, "RuntimeError")
    ELSE IF val.raised # "none" THEN RaiseLogged(ev, "ValueError")
    ELSE ParseChunks(ev, chunks, i + 1,
                     StoreChunk(tdargs, TIME_MULTIPLIERS[last], val.value))

ParseChunks(ev, chunks, i, tdargs) ==
    IF i > Len(chunks) THEN Returned(timedelta(tdargs))
    ELSE ParseChunk(ev, chunks, i, tdargs, chunks[i][Len(chunks[i])],
                    int(SubSeq(chunks[i], 1, Len(chunks[i]) - 1)))

parse_timedelta(ev) == ParseChunks(ev, split(ev["event-duration"]), 1, EmptyDict)

-----------------------------------------------------------------------------
(* datetime: seconds since 2000-01-01 00:00:00 *)

IsLeap(y) == (y % 4 = 0 /\ y % 100 # 0) \/ y % 400 = 0

DaysInMonth(y, m) ==
    IF m = 2 THEN (IF IsLeap(y) THEN 29 ELSE 28)
    ELSE IF m \in {4, 6, 9, 11} THEN 30 ELSE 31

RECURSIVE DaysBeforeMonth(_, _)
DaysBeforeMonth(y, m) ==
    IF m = 1 THEN 0 ELSE DaysBeforeMonth(y, m - 1) + DaysInMonth(y, m - 1)

DaysBeforeYear(y) ==
    365 * (y - 1) + ((y - 1) \div 4) - ((y - 1) \div 100) + ((y - 1) \div 400)

\* date.toordinal()
Ordinal(y, m, d) == DaysBeforeYear(y) + DaysBeforeMonth(y, m) + d

datetime(y, m, d, hh, mm) ==
    (Ordinal(y, m, d) - Ordinal(2000, 1, 1)) * 86400 + hh * 3600 + mm * 60

-----------------------------------------------------------------------------
(* datetime.strptime(s, '%Y-%m-%d %H:%M') *)

\* Length of the run of digits of s that starts at position i.
RECURSIVE DigitRun(_, _)
DigitRun(s, i) ==
    IF i > Len(s) \/ s[i] \notin Digits THEN 0 ELSE 1 + DigitRun(s, i + 1)

RECURSIVE SpaceRun(_, _)
SpaceRun(s, i) ==
    IF i > Len(s) \/ ~IsSpace(s[i]) THEN 0 ELSE 1 + SpaceRun(s, i + 1)

\* A numeric directive at position i: a run of n digits, minw <= n <= maxw,
\* of value v in lo..hi.  [ok, value, next].
FieldOf(i, n, v, minw, maxw, lo, hi) ==
    IF n < minw \/ n > maxw \/ v < lo \/ v > hi
    THEN [ok |-> FALSE, value |-> 0, next |-> i]
    ELSE [ok |-> TRUE, value |-> v, next |-> i + n]

Field(s, i, minw, maxw, lo, hi) ==
    FieldOf(i, DigitRun(s, i),
            DecimalVal(SubSeq(s, i, i + DigitRun(s, i) - 1)), minw, maxw, lo, hi)

Literal(s, i, c) == i <= Len(s) /\ s[i] = c

\* The directives of '%Y-%m-%d %H:%M' from right to left; each stage is
\* handed the fields matched so far.
StrpMinute(s, Y, M, D, hh, mm) ==
    IF mm.ok /\ mm.next = Len(s) + 1 /\ D.value <= DaysInMonth(Y.value, M.value)
    THEN Returned(datetime(Y.value, M.value, D.value, hh.value, mm.value))
    ELSE Raised("ValueError")

StrpHour(s, Y, M, D, hh) ==
    IF hh.ok /\ Literal(s, hh.next, ":")
    THEN StrpMinute(s, Y, M, D, hh, Field(s, hh.next + 1, 1, 2, 0, 59))
    ELSE Raised("ValueError")

StrpSpace(s, Y, M, D, sp) ==
    IF sp >= 1 THEN StrpHour(s, Y, M, D, Field(s, D.next + sp, 1, 2, 0, 23))
    ELSE Raised("ValueError")

StrpDay(s, Y, M, D) ==
    IF D.ok THEN StrpSpace(s, Y, M, D, SpaceRun(s, D.next))
    ELSE Raised("ValueError")

StrpMonth(s, Y, M) ==
    IF M.ok /\ Literal(s, M.next, "-")
    THEN StrpDay(s, Y, M, Field(s, M.next + 1, 1, 2, 1, 31))
    ELSE Raised("ValueError")

StrpYear(s, Y) ==
    IF Y.ok /\ Literal(s, Y.next, "-")
    THEN StrpMonth(s, Y, Field(s, Y.next + 1, 1, 2, 1, 12))
    ELSE Raised("ValueError")

strptime(s) == StrpYear(s, Field(s, 1, 4, 4, 1, 9999))

\* The except clause of parse_tstamp: log with ev['title'], then re-raise.
Reraise(ev, r) == IF r.raised = "none" THEN r ELSE RaiseLogged(ev, r.raised)

parse_tstamp(ev, field_name) == Reraise(ev, strptime(ev[field_name]))

-----------------------------------------------------------------------------
(* parse_article: the content_object_init hook *)

MissingEnd == "ValueError: Either 'event-end' or 'event-duration' must be speciefied"

\* The four setattr calls.
Annotate(a, dtstart, dtend) ==
    SetItem(SetItem(SetItem(SetItem(a, "event-start", dtstart),
                            "event-end", dtend),
                    "event_start", dtstart),
            "event_end", dtend)

\* dtend = dtstart + dtdelta
AddDelta(dtstart, dtdelta) ==
    IF dtdelta.raised # "none" THEN dtdelta ELSE Returned(dtstart + dtdelta.value)

\* The if / elif / else that computes dtend.
ResolveEnd(md, dtstart) ==
    IF "event-end" \in DOMAIN md THEN parse_tstamp(md, "event-end")
    ELSE IF "event-duration" \in DOMAIN md THEN AddDelta(dtstart, parse_timedelta(md))
    ELSE IF "title" \notin DOMAIN md THEN Raised("KeyError")
    ELSE Raised(MissingEnd)

\* The end of parse_article: the setattr calls run only when nothing raised.
AfterEnd(a, dtstart, dtend) ==
    IF dtend.raised # "none" THEN [raised |-> dtend.raised, attrs |-> a]
    ELSE [raised |-> "none", attrs |-> Annotate(a, dtstart, dtend.value)]

AfterStart(md, a, dtstart) ==
    IF dtstart.raised # "none" THEN [raised |-> dtstart.raised, attrs |-> a]
    ELSE AfterEnd(a, dtstart.value, ResolveEnd(md, dtstart.value))

\* [raised, attrs]: what the call raised and the attributes of the content after it.
parse_article(md, a) ==
    IF "event-start" \notin DOMAIN md THEN [raised |-> "none", attrs |-> a]
    ELSE AfterStart(md, a, parse_tstamp(md, "event-start"))

-----------------------------------------------------------------------------
(* The content of the site: the metadata a content item may carry *)

Items == 1..NumItems

Jan1 == <<"2", "0", "2", "4", "-", "0", "1", "-", "0", "1">>
Jul2 == <<"2", "0", "2", "4", "-", "0", "7", "-", "0", "2">>
Month13 == <<"2", "0", "2", "4", "-", "1", "3", "-", "0", "1">>
At(date, h1, h2, m1, m2) == date \o <<" ", h1, h2, ":", m1, m2>>

Naive(t) == [t |-> t, aware |-> FALSE]
Aware(t) == [t |-> t, aware |-> TRUE]

Base(title, slug) ==
    ("title" :> title) @@ ("slug" :> slug) @@ ("date" :> Naive(datetime(2023, 12, 24, 8, 0)))

Catalogue ==
    { \* an article that is no event
      Base("News", "news"),
      \* 'event-end' and 'event-duration' both present
      Base("<b>Talk</b>", "talk") @@ ("event-start" :> At(Jan1, "1", "0", "0", "0"))
          @@ ("event-end" :> At(Jan1, "1", "2", "0", "0"))
          @@ ("event-duration" :> <<"1", "h">>) @@ ("lang" :> "en")
          @@ ("event-location" :> "Room 1") @@ ("location" :> "Passau"),
      \* 'event-duration' only; same window as the talk
      Base("Vortrag", "vortrag") @@ ("event-start" :> At(Jan1, "1", "0", "0", "0"))
          @@ ("event-duration" :> <<"1", "h", " ", "6", "0", "m">>) @@ ("lang" :> "de")
          @@ ("location" :> "Passau"),
      \* a summer event without a language
      Base("Workshop", "workshop") @@ ("event-start" :> At(Jul2, "0", "9", "0", "0"))
          @@ ("event-end" :> At(Jul2, "0", "9", "3", "0")),
      \* a page: an event without 'date'
      ("title" :> "Stammtisch") @@ ("slug" :> "stammtisch") @@ ("lang" :> "en")
          @@ ("event-start" :> At(Jan1, "1", "0", "0", "0"))
          @@ ("event-duration" :> <<"3", "h">>),
      \* an event whose 'date' already carries a timezone
      ("title" :> "Party") @@ ("slug" :> "party") @@ ("lang" :> "de")
          @@ ("date" :> Aware(datetime(2023, 12, 24, 8, 0)))
          @@ ("event-start" :> At(Jan1, "2", "0", "0", "0"))
          @@ ("event-end" :> At(Jan1, "2", "3", "0", "0")),
      \* a start and no way to compute the end
      Base("Open end", "open-end") @@ ("event-start" :> At(Jan1, "1", "0", "0", "0")),
      \* the same, in a source file without a title
      ("event-start" :> At(Jan1, "1", "0", "0", "0")),
      \* a month that does not exist
      Base("Bad start", "bad-start") @@ ("event-start" :> At(Month13, "1", "0", "0", "0"))
          @@ ("event-end" :> At(Jan1, "1", "2", "0", "0")),
      \* an unknown multiplier
      Base("Bad duration", "bad-duration") @@ ("event-start" :> At(Jan1, "1", "0", "0", "0"))
          @@ ("event-duration" :> <<"2", "x">>) }

-----------------------------------------------------------------------------
(* The duration strings of the duration-parser specification *)

DurAlphabet == {"1", "2", "h", "m", " ", "x"}

DurStrings == UNION {[1..n -> DurAlphabet] : n \in 0..MaxDurLen}

-----------------------------------------------------------------------------
(* The event store: the module globals `events` and `localized_events` *)

\* A mutant: the end is read from the start attribute.
EventStartTwice(md, a, i) ==
    [dtstart |-> a["event_start"], dtend |-> a["event_start"],
     metadata |-> md, article |-> i]

\* Event(content.event_start, content.event_end, content.metadata, content)
Event(md, a, i) ==
    [dtstart |-> a["event_start"], dtend |-> a["event_end"],
     metadata |-> md, article |-> i]

\* `event in events`: equality of all four fields.
Contains(evts, e) == \E j \in 1..Len(evts) : evts[j] = e

\* A mutant of the loop body of generate_events: no membership test.
AppendAlways(evts, e) == Append(evts, e)

AppendNew(evts, e) == IF Contains(evts, e) THEN evts ELSE Append(evts, e)

\* The loop of generate_events over generator.context["generated_content"],
\* a dict whose values come in the order the items were created.
RECURSIVE Collect(_, _, _, _, _)
Collect(evts, md, at, offered, i) ==
    IF i > NumItems THEN evts
    ELSE IF i \in offered /\ "event_start" \in DOMAIN at[i]
         THEN Collect(AppendNew(evts, Event(md[i], at[i], i)), md, at, offered, i + 1)
         ELSE Collect(evts, md, at, offered, i + 1)

\* localized_events[k] of a defaultdict(list): a missing key is inserted.
GetDefault(d, k) == IF k \in DOMAIN d THEN d ELSE SetItem(d, k, <<>>)

\* localized_events[k].append(e)
AppendUnder(loc, k, e) == SetItem(loc, k, Append(GetDefault(loc, k)[k], e))

\* A mutant: events without 'lang' are filed under the empty language.
FileAll(loc, e) ==
    AppendUnder(loc, IF "lang" \in DOMAIN e.metadata THEN e.metadata["lang"] ELSE "", e)

FileByLang(loc, e) ==
    IF "lang" \in DOMAIN e.metadata THEN AppendUnder(loc, e.metadata["lang"], e)
    ELSE loc

RECURSIVE Localize(_, _, _)
Localize(loc, evts, j) ==
    IF j > Len(evts) THEN loc
    ELSE Localize(FileByLang(loc, evts[j]), evts, j + 1)

\* [localized_events, fs]
generate_localized_events(evts, loc, files, settings) ==
    IF "i18n_subsites" \in settings.PLUGINS
    THEN [localized_events |-> Localize(loc, evts, 1),
          fs |-> [files EXCEPT !.dir = TRUE]]
    ELSE [localized_events |-> loc, fs |-> files]

-----------------------------------------------------------------------------
(* generate_events_list *)

\* key=lambda ev: (ev.dtstart, ev.dtend), compared as tuples.
KeyLess(a, b) ==
    \/ a.dtstart < b.dtstart
    \/ a.dtstart = b.dtstart /\ a.dtend < b.dtend

InsertAt(sorted_, e, k) ==
    SubSeq(sorted_, 1, k - 1) \o <<e>> \o SubSeq(sorted_, k, Len(sorted_))

\* The least position of a set of positions, or the end of the list.
FirstOf(sorted_, before) ==
    IF before = {} THEN Len(sorted_) + 1
    ELSE CHOOSE j \in before : \A h \in before : j <= h

\* A mutant: events of equal key are put in front of one another.
InsertUnstable(sorted_, e) ==
    InsertAt(sorted_, e,
             FirstOf(sorted_, {j \in 1..Len(sorted_) : ~KeyLess(e, sorted_[j])}))

\* One step of the stable descending sort: e goes in front of the first event
\* of smaller key, behind every event of equal key.
Insert(sorted_, e) ==
    InsertAt(sorted_, e,
             FirstOf(sorted_, {j \in 1..Len(sorted_) : KeyLess(sorted_[j], e)}))

RECURSIVE SortFrom(_, _, _)
SortFrom(acc, v, j) ==
    IF j > Len(v) THEN acc ELSE SortFrom(Insert(acc, v[j]), v, j + 1)

\* sorted(v, reverse=True, key=...): stable.
sorted(v) == SortFrom(<<>>, v, 1)

\* The value stored under context['events_list'].
generate_events_list(evts, loc, ctx) ==
    IF DOMAIN loc = {}
    THEN SetItem(ctx, "events_list",
                 [localized |-> FALSE, list |-> sorted(evts), dict |-> EmptyDict])
    ELSE SetItem(ctx, "events_list",
                 [localized |-> TRUE, list |-> <<>>,
                  dict |-> [k \in DOMAIN loc |-> sorted(loc[k])]])

-----------------------------------------------------------------------------
(* pytz, Markup and icalendar, as far as generate_ical_file uses them *)

\* pytz.timezone(name) raises UnknownTimeZoneError for any other name.
KnownZones == {"UTC", "Europe/Berlin"}

\* The offset pytz gives a naive local time (is_dst=False); the table of
\* Europe/Berlin covers the summer time of 2024.
UtcOffset(zone, t) ==
    IF zone = "UTC" THEN 0
    ELSE IF t >= datetime(2024, 3, 31, 3, 0) /\ t < datetime(2024, 10, 27, 2, 0)
         THEN 7200 ELSE 3600

\* local_tz.localize(dt).astimezone(pytz.utc); dt is [t, aware].
\* localize raises ValueError when dt already carries a tzinfo.
ToUtc(zone, dt) ==
    IF dt.aware THEN Raised("ValueError") ELSE Returned(dt.t - UtcOffset(zone, dt.t))

\* Markup(s).striptags() on the titles of the catalogue.
striptags(s) == IF s = "<b>Talk</b>" THEN "Talk" ELSE s

\* The icalendar.Event built for e from the converted timestamps, or what
\* building it raised.  The lookups happen in the order of the source: 'date',
\* 'title', 'slug'.
ComponentOf(e, md, dtstart_utc, dtend_utc, dtstamp_utc) ==
    IF dtstamp_utc.raised # "none" THEN dtstamp_utc
    ELSE IF "title" \notin DOMAIN md \/ "slug" \notin DOMAIN md THEN Raised("KeyError")
    ELSE Returned(
        [summary |-> striptags(md["title"]),
         dtstart |-> dtstart_utc.value,
         dtend |-> dtend_utc.value,
         dtstamp |-> dtstamp_utc.value,
         uid |-> <<md["slug"], "@", "site">>,
         class |-> "PUBLIC",
         description |-> e.article,
         location |-> IF "event-location" \in DOMAIN md THEN <<md["event-location"]>>
                      ELSE IF "location" \in DOMAIN md THEN <<md["location"]>>
                      ELSE <<>>])

Component(e, zone) ==
    ComponentOf(e, e.metadata, ToUtc(zone, Naive(e.dtstart)), ToUtc(zone, Naive(e.dtend)),
                IF "date" \in DOMAIN e.metadata THEN ToUtc(zone, e.metadata["date"])
                ELSE Raised("KeyError"))

\* The loop over curr_events: the components added so far, or the first error.
RECURSIVE Components(_, _, _, _)

AddComponent(acc, curr_events, zone, j, ie) ==
    IF ie.raised # "none" THEN ie
    ELSE Components(Append(acc, ie.value), curr_events, zone, j + 1)

Components(acc, curr_events, zone, j) ==
    IF j > Len(curr_events) THEN Returned(acc)
    ELSE AddComponent(acc, curr_events, zone, j, Component(curr_events[j], zone))

Calendar(components) ==
    [prodid |-> "-//pelican/events//mxm.dk//EN", version |-> "2.0",
     method |-> "PUBLISH", components |-> components]

\* A file: whether it exists and, when it holds a calendar, that calendar.
\* A file that exists with no calendar is a file of zero bytes.
NoFile == [exists |-> FALSE, ical |-> <<>>]
Truncated == [exists |-> TRUE, ical |-> <<>>]
Written(cal) == [exists |-> TRUE, ical |-> <<cal>>]

-----------------------------------------------------------------------------
(* generate_ical_file *)

\* A mutant: the full list is exported whenever the default language has no list.
ChooseOrAll(evts, loc, lang) ==
    IF lang \notin DOMAIN loc
    THEN [curr_events |-> evts, localized_events |-> loc]
    ELSE [curr_events |-> loc[lang], localized_events |-> loc]

\* [curr_events, localized_events] once the mapping was subscripted.
Subscripted(loc, lang) == [curr_events |-> loc[lang], localized_events |-> loc]

\* curr_events = events if not localized_events else localized_events[DEFAULT_LANG]
\* The subscript on the defaultdict inserts DEFAULT_LANG when it is missing.
ChooseEvents(evts, loc, lang) ==
    IF DOMAIN loc = {}
    THEN [curr_events |-> evts, localized_events |-> loc]
    ELSE Subscripted(GetDefault(loc, lang), lang)

\* with open(ics_fname, 'wb') as f: f.write(ical.to_ical())
\* open() creates or truncates the file before to_ical() runs.
WriteFile(files, cal, fault) ==
    IF ~files.dir THEN [raised |-> "FileNotFoundError", fs |-> files]
    ELSE IF fault = "to_ical"
         THEN [raised |-> "ValueError", fs |-> [files EXCEPT !.file = Truncated]]
         ELSE [raised |-> "none", fs |-> [files EXCEPT !.file = Written(cal)]]

\* The end of generate_ical_file: the file is opened only when every
\* component was built.
WriteCalendar(files, loc, comps, fault) ==
    IF comps.raised # "none"
    THEN [raised |-> comps.raised, localized_events |-> loc, fs |-> files]
    ELSE [raised |-> WriteFile(files, Calendar(comps.value), fault).raised,
          localized_events |-> loc,
          fs |-> WriteFile(files, Calendar(comps.value), fault).fs]

ExportChosen(chosen, files, zone, fault) ==
    WriteCalendar(files, chosen.localized_events,
                  Components(<<>>, chosen.curr_events, zone, 1), fault)

\* [raised, localized_events, fs]
generate_ical_file(evts, loc, files, settings, fault) ==
    IF settings.ics_fname = ""
    THEN [raised |-> "none", localized_events |-> loc, fs |-> files]
    ELSE IF settings.TIMEZONE \notin KnownZones
    THEN [raised |-> "UnknownTimeZoneError", localized_events |-> loc, fs |-> files]
    ELSE ExportChosen(ChooseEvents(evts, loc, settings.DEFAULT_LANG), files,
                      settings.TIMEZONE, fault)

-----------------------------------------------------------------------------
(* generate_events: the article_generator_finalized hook *)

\* generate_events_list runs only when generate_ical_file returned.
PublishAfter(collected, ical, ctx) ==
    [raised |-> ical.raised,
     events |-> collected,
     localized_events |-> ical.localized_events,
     fs |-> ical.fs,
     context |-> IF ical.raised # "none" THEN ctx
                 ELSE generate_events_list(collected, ical.localized_events, ctx)]

ExportAfter(collected, part, ctx, settings, fault) ==
    PublishAfter(collected,
                 generate_ical_file(collected, part.localized_events, part.fs,
                                    settings, fault),
                 ctx)

LocalizeAfter(collected, loc, files, ctx, settings, fault) ==
    ExportAfter(collected, generate_localized_events(collected, loc, files, settings),
                ctx, settings, fault)

\* [raised, events, localized_events, fs, context]
generate_events(md, at, evts, loc, files, ctx, settings, offered, fault) ==
    LocalizeAfter(Collect(evts, md, at, offered, 1), loc, files, ctx, settings, fault)

-----------------------------------------------------------------------------
(* The host: settings, hooks and their scheduling *)

Settings ==
    [ics_fname : {"", "events.ics"},
     TIMEZONE : {"Europe/Berlin", "Mars/Olympus"},
     DEFAULT_LANG : {"en", "de"},
     PLUGINS : {{}, {"i18n_subsites"}}]

\* What may go wrong below the plugin while the calendar is serialized.
Faults == {"none", "to_ical"}

StaleCalendar == Calendar(<<>>)

Init ==
    /\ site_settings \in Settings
    /\ metadata \in [Items -> Catalogue]
    /\ attrs = [i \in Items |-> EmptyDict]
    /\ events = <<>>
    /\ localized_events = EmptyDict
    /\ context = EmptyDict
    /\ fs \in {[dir |-> FALSE, file |-> NoFile],
               [dir |-> TRUE, file |-> Written(StaleCalendar)]}
    /\ call = [hook |-> "none", arg |-> {}, raised |-> "none"]
    /\ finalized = 0
    /\ td_in = <<>>
    /\ td_out = <<>>

\* initialize_events, on article_generator_init
Reset ==
    /\ events' = <<>>
    /\ localized_events' = EmptyDict
    /\ call' = [hook |-> "reset", arg |-> {}, raised |-> "none"]
    /\ finalized' = 0
    /\ UNCHANGED <<site_settings, metadata, attrs, context, fs, td_in, td_out>>

Resolving(i, r) ==
    /\ attrs' = [attrs EXCEPT ![i] = r.attrs]
    /\ call' = [hook |-> "resolve", arg |-> {i}, raised |-> r.raised]
    /\ UNCHANGED <<site_settings, metadata, events, localized_events, context, fs,
                   finalized, td_in, td_out>>

\* parse_article(content), on content_object_init
Resolve(i) == Resolving(i, parse_article(metadata[i], attrs[i]))

Finalizing(offered, r) ==
    /\ finalized < MaxFinalize
    /\ events' = r.events
    /\ localized_events' = r.localized_events
    /\ fs' = r.fs
    /\ context' = r.context
    /\ call' = [hook |-> "finalize", arg |-> offered, raised |-> r.raised]
    /\ finalized' = finalized + 1
    /\ UNCHANGED <<site_settings, metadata, attrs, td_in, td_out>>

\* generate_events(generator), on article_generator_finalized
Finalize(offered, fault) ==
    Finalizing(offered,
               generate_events(metadata, attrs, events, localized_events, fs,
                               context, site_settings, offered, fault))

Next ==
    \/ Reset
    \/ \E i \in Items : Resolve(i)
    \/ \E offered \in SUBSET Items, fault \in Faults :
          Finalize(offered, fault)

Spec == Init /\ [][Next]_vars

-----------------------------------------------------------------------------
(* The duration parser on its own: two strings made of the same chunks *)

RECURSIVE Join(_)
Join(chunks) ==
    IF chunks = <<>> THEN <<>>
    ELSE IF Len(chunks) = 1 THEN chunks[1]
    ELSE chunks[1] \o <<" ">> \o Join(Tail(chunks))

Permutations_(n) == {p \in [1..n -> 1..n] : \A a, b \in 1..n : a # b => p[a] # p[b]}

Rearranged(s) ==
    LET chunks == split(s)
    IN  {Join([j \in 1..Len(chunks) |-> chunks[p[j]]]) : p \in Permutations_(Len(chunks))}

DurationOf(s) == ("title" :> "Talk") @@ ("event-duration" :> s)

InitTD ==
    /\ site_settings = CHOOSE x \in Settings : TRUE
    /\ metadata = [i \in Items |-> Base("News", "news")]
    /\ attrs = [i \in Items |-> EmptyDict]
    /\ events = <<>>
    /\ localized_events = EmptyDict
    /\ context = EmptyDict
    /\ fs = [dir |-> FALSE, file |-> NoFile]
    /\ call = [hook |-> "none", arg |-> {}, raised |-> "none"]
    /\ finalized = 0
    /\ \E s \in DurStrings : \E t \in Rearranged(s) : td_in = <<s, t>>
    /\ td_out = <<>>

ParseDurations ==
    /\ td_out = <<>>
    /\ td_out' = <<parse_timedelta(DurationOf(td_in[1])),
                   parse_timedelta(DurationOf(td_in[2]))>>
    /\ call' = [hook |-> "parse_timedelta", arg |-> {}, raised |-> "none"]
    /\ UNCHANGED <<site_settings, metadata, attrs, events, localized_events,
                   context, fs, finalized, td_in>>

NextTD == ParseDurations

SpecTD == InitTD /\ [][NextTD]_vars

-----------------------------------------------------------------------------
(* Vocabulary of the properties *)

Resolved(i) == {"event_start", "event_end"} \subseteq DOMAIN attrs[i]

Count(seq, e) == Cardinality({j \in 1..Len(seq) : seq[j] = e})

NoDuplicates(seq) == \A j, h \in 1..Len(seq) : seq[j] = seq[h] => j = h

Elements(seq) == {seq[j] : j \in 1..Len(seq)}

\* The list of language k; a language that is no key has no events.
Under(loc, k) == IF k \in DOMAIN loc THEN loc[k] ELSE <<>>

Langs == {"en", "de"}

HasLang(e, k) == "lang" \in DOMAIN e.metadata /\ e.metadata["lang"] = k

I18nActive == "i18n_subsites" \in site_settings.PLUGINS

ExportEnabled == site_settings.ics_fname # ""

Finalized == call.hook = "finalize"

-----------------------------------------------------------------------------
\* C1: the event list never holds two equal Events, and an offered resolved
\* item has exactly one Event in it after a collect, however often it was
\* offered since the last reset; after a reset the event list and the language
\* mapping are empty, and the first collect after it holds only events of the
\* items offered to it.
C1_StoreDedupReset ==
    /\ NoDuplicates(events)
    /\ \A i \in Items : Cardinality({j \in 1..Len(events) : events[j].article = i}) <= 1
    /\ Finalized =>
          \A i \in call.arg : Resolved(i) =>
              Count(events, Event(metadata[i], attrs[i], i)) = 1
    /\ call.hook = "reset" => events = <<>> /\ DOMAIN localized_events = {}
    /\ Finalized /\ finalized = 1 => \A e \in Elements(events) : e.article \in call.arg

\* An item that was in the store at two finalize hooks in a row (the mapping
\* holds it twice), offered to the second, and once in the event list.
C1_Witness ==
    /\ Finalized /\ finalized = 2
    /\ \E e \in Elements(events) :
          /\ e.article \in call.arg
          /\ \E k \in DOMAIN localized_events : Count(localized_events[k], e) = 2
          /\ Count(events, e) = 1

-----------------------------------------------------------------------------
\* The end the metadata of an item asks for, given its start.
ExpectedEnd(md, dtstart) ==
    IF "event-end" \in DOMAIN md THEN strptime(md["event-end"])
    ELSE LET d == parse_timedelta(md)
         IN  IF d.raised = "none" THEN Returned(dtstart + d.value) ELSE d

\* C2: parse_article on an item without 'event-start' annotates nothing and
\* raises nothing; with 'event-start' the end is the parsed 'event-end' when
\* present, else start + parsed 'event-duration' when present, else the call
\* fails with the missing-end error; on success both spellings carry the same
\* start and end, on failure the item carries no annotation.
C2_ResolverEnd ==
    call.hook = "resolve" =>
        \A i \in call.arg :
            LET md == metadata[i]
                a == attrs[i]
            IN  /\ "event-start" \notin DOMAIN md =>
                      call.raised = "none" /\ DOMAIN a = {}
                /\ "event-start" \in DOMAIN md /\ call.raised = "none" =>
                      /\ DOMAIN a = {"event-start", "event-end", "event_start", "event_end"}
                      /\ a["event-start"] = strptime(md["event-start"]).value
                      /\ a["event_start"] = a["event-start"]
                      /\ \/ "event-end" \in DOMAIN md
                         \/ "event-duration" \in DOMAIN md
                      /\ a["event-end"] = ExpectedEnd(md, a["event-start"]).value
                      /\ a["event_end"] = a["event-end"]
                /\ /\ "event-start" \in DOMAIN md
                   /\ strptime(md["event-start"]).raised = "none"
                   /\ "event-end" \notin DOMAIN md
                   /\ "event-duration" \notin DOMAIN md
                   => call.raised = MissingEnd
                /\ call.raised # "none" => DOMAIN a = {}

-----------------------------------------------------------------------------
\* C3 as stated: an Event is in the store if and only if its owning item has
\* both a resolved start and a resolved end.
C3_StoreIffResolved ==
    \A i \in Items : (\E e \in Elements(events) : e.article = i) <=> Resolved(i)

\* C3, amended: every Event in the store belongs to an item that has both a
\* resolved start and a resolved end, equal to the Event's; right after a
\* finalize every offered item with resolved start and end has its Event in
\* the store.
C3_StoreOnlyResolved ==
    /\ \A e \in Elements(events) :
          /\ Resolved(e.article)
          /\ e.dtstart = attrs[e.article]["event_start"]
          /\ e.dtend = attrs[e.article]["event_end"]
          /\ e.metadata = metadata[e.article]
    /\ Finalized =>
          \A i \in call.arg : Resolved(i) => \E e \in Elements(events) : e.article = i

\* After a finalize: one resolved item is in the store, another resolved item,
\* not offered, is not.
C3_Witness ==
    /\ Finalized
    /\ \E i, k \in Items :
          /\ Resolved(i) /\ Resolved(k) /\ i \in call.arg /\ k \notin call.arg
          /\ attrs[i]["event_end"] # attrs[i]["event_start"]
          /\ \E e \in Elements(events) : e.article = i
          /\ ~\E e \in Elements(events) : e.article = k

-----------------------------------------------------------------------------
\* C4: every Event in a language's list is in the event list; after a finalize
\* with i18n_subsites active the events under language L are exactly the
\* collected events whose 'lang' is L, and an event without 'lang' is under no
\* language; without i18n_subsites the partitioning adds nothing to the mapping.
C4_LocalizedView ==
    /\ \A k \in DOMAIN localized_events :
          Elements(localized_events[k]) \subseteq Elements(events)
    /\ Finalized /\ I18nActive =>
          /\ \A k \in Langs \cup DOMAIN localized_events :
                Elements(Under(localized_events, k))
                    = {e \in Elements(events) : HasLang(e, k)}
          /\ \A e \in Elements(events) :
                "lang" \notin DOMAIN e.metadata =>
                    \A k \in DOMAIN localized_events :
                        e \notin Elements(localized_events[k])
    /\ ~I18nActive => DOMAIN localized_events = {}

\* After a finalize with i18n_subsites active: an event with a language is
\* under it, an event without a language is in the event list only.
C4_Witness ==
    /\ Finalized /\ I18nActive
    /\ \E e \in Elements(events) :
          "lang" \in DOMAIN e.metadata
          /\ e \in Elements(Under(localized_events, e.metadata["lang"]))
    /\ \E e \in Elements(events) : "lang" \notin DOMAIN e.metadata

-----------------------------------------------------------------------------
\* The sequence the exporter is to write: the default language's list when the
\* mapping is not empty, the event list when it is.
ChosenSequence ==
    IF DOMAIN localized_events = {} THEN events
    ELSE Under(localized_events, site_settings.DEFAULT_LANG)

Exported == Finalized /\ ExportEnabled /\ call.raised = "none"

\* C5: after an export that succeeded the calendar holds one component per
\* entry of the chosen sequence, in its order: the default language's list
\* whenever the language mapping is not empty (no component at all when no
\* event has the default language), the full event list only when the mapping
\* is empty; no event of another language is in the calendar when the mapping
\* is not empty.
C5_ExportSource ==
    Exported =>
        /\ fs.file.exists /\ Len(fs.file.ical) = 1
        /\ LET comps == fs.file.ical[1].components
           IN  /\ Len(comps) = Len(ChosenSequence)
               /\ \A j \in 1..Len(comps) :
                     /\ comps[j].description = ChosenSequence[j].article
                     /\ comps[j].uid[1] = ChosenSequence[j].metadata["slug"]
                     /\ DOMAIN localized_events # {} =>
                           HasLang(ChosenSequence[j], site_settings.DEFAULT_LANG)

\* A calendar without components written although the event list is not empty:
\* the mapping holds another language only.
C5_Witness ==
    /\ Exported
    /\ DOMAIN localized_events # {}
    /\ events # <<>>
    /\ \A e \in Elements(events) : ~HasLang(e, site_settings.DEFAULT_LANG)
    /\ fs.file.ical[1].components = <<>>

-----------------------------------------------------------------------------
\* C6: when the export fails, the error propagates and the calendar file is
\* left exactly as it was before the export started.
C6_ExportAllOrNothing ==
    [][call'.hook = "finalize" /\ call'.raised # "none" => fs'.file = fs.file]_vars

-----------------------------------------------------------------------------
NonIncreasing(seq) ==
    \A j \in 1..Len(seq) - 1 : ~KeyLess(seq[j], seq[j + 1])

IsPermutation(a, b) ==
    /\ Len(a) = Len(b)
    /\ \A e \in Elements(a) \cup Elements(b) : Count(a, e) = Count(b, e)

SortLaw(published, source) ==
    /\ IsPermutation(published, source)
    /\ NonIncreasing(published)
    /\ sorted(published) = published

Published == Finalized /\ call.raised = "none"

\* C7: after a finalize that publishes, context['events_list'] is one sequence
\* when the language mapping is empty and otherwise a mapping from each
\* language to its sequence; every published sequence is a permutation of its
\* source list, non-increasing in (start, end), and sorting it again returns it.
C7_SortLaw ==
    Published =>
        /\ "events_list" \in DOMAIN context
        /\ LET el == context["events_list"]
           IN  IF DOMAIN localized_events = {}
               THEN ~el.localized /\ SortLaw(el.list, events)
               ELSE /\ el.localized
                    /\ DOMAIN el.dict = DOMAIN localized_events
                    /\ \A k \in DOMAIN el.dict : SortLaw(el.dict[k], localized_events[k])

\* A published sequence of two different events with the same window.
C7_Witness ==
    /\ Published
    /\ ~context["events_list"].localized
    /\ LET l == context["events_list"].list
       IN  /\ Len(l) = 2
           /\ l[1] # l[2]
           /\ l[1].dtstart = l[2].dtstart /\ l[1].dtend = l[2].dtend

-----------------------------------------------------------------------------
Units == DOMAIN TIME_MULTIPLIERS

\* A chunk <int><w|d|h|m|s>.
WellFormed(c) ==
    /\ Len(c) >= 2
    /\ c[Len(c)] \in Units
    /\ AllDigits(SubSeq(c, 1, Len(c) - 1))

NumberOf(c) == DecimalVal(SubSeq(c, 1, Len(c) - 1))

\* The chunks of unit u, by position.
ChunksOf(chunks, u) == {j \in 1..Len(chunks) : chunks[j][Len(chunks[j])] = u}

LastOf(chunks, u) == CHOOSE j \in ChunksOf(chunks, u) : \A h \in ChunksOf(chunks, u) : h <= j

RECURSIVE SumLastWins(_, _)
SumLastWins(chunks, units) ==
    IF units = {} THEN 0
    ELSE LET u == CHOOSE x \in units : TRUE
             rest == SumLastWins(chunks, units \ {u})
         IN  IF ChunksOf(chunks, u) = {} THEN rest
             ELSE NumberOf(chunks[LastOf(chunks, u)]) * SecondsIn(TIME_MULTIPLIERS[u]) + rest

DistinctUnits(chunks) == \A u \in Units : Cardinality(ChunksOf(chunks, u)) <= 1

\* C8: for a duration string of whitespace-separated chunks <int><w|d|h|m|s>
\* parse_timedelta returns the sum of the named fields, where of the chunks of
\* one unit only the last counts; the same chunks in another order give the
\* same result when no unit is repeated.
C8_DurationSum ==
    td_out # <<>> =>
        LET chunks == split(td_in[1])
        IN  (\A j \in 1..Len(chunks) : WellFormed(chunks[j])) =>
                /\ td_out[1] = Returned(SumLastWins(chunks, Units))
                /\ DistinctUnits(chunks) => td_out[2] = td_out[1]

\* "1h 2h" parsed to two hours, and "2h 1h", made of the same chunks, to one.
C8_Witness ==
    /\ td_in = << <<"1", "h", " ", "2", "h">>, <<"2", "h", " ", "1", "h">> >>
    /\ td_out = <<Returned(7200), Returned(3600)>>

\* "1h 2m" and "2m 1h" parsed to the same 62 minutes.
C8_WitnessOrder ==
    /\ td_in = << <<"1", "h", " ", "2", "m">>, <<"2", "m", " ", "1", "h">> >>
    /\ td_out = <<Returned(3720), Returned(3720)>>

-----------------------------------------------------------------------------
\* The store as collecting and partitioning leave it, before export and publish.
StoreBeforeExport(offered) ==
    LET collected == Collect(events, metadata, attrs, offered, 1)
    IN  [events |-> collected,
         localized_events |->
             generate_localized_events(collected, localized_events, fs,
                                       site_settings).localized_events]

\* C9: generate_ical_file and generate_events_list leave the event list and
\* the language mapping (its keys and each key's list) as they found them, so
\* the published listing has the keys the partitioning produced, export
\* enabled or not.
C9_StoreReadOnly ==
    [][call'.hook = "finalize" =>
          LET before == StoreBeforeExport(call'.arg)
          IN  /\ events' = before.events
              /\ DOMAIN localized_events' = DOMAIN before.localized_events
              /\ \A k \in DOMAIN before.localized_events :
                    localized_events'[k] = before.localized_events[k]
              /\ call'.raised = "none" /\ DOMAIN before.localized_events # {} =>
                    DOMAIN context'["events_list"].dict
                        = DOMAIN before.localized_events]_vars

-----------------------------------------------------------------------------
\* C10: with i18n_subsites active every language's list of the mapping holds
\* every event at most once, also when finalize runs more than once without a
\* reset in between.
C10_LocalizedNoDuplicates ==
    I18nActive => \A k \in DOMAIN localized_events : NoDuplicates(localized_events[k])

=============================================================================
